---- MODULE Spec2Model ----
(***************************************************************************)
(* State-machine model of the libRSF GNSS application (App_GNSS.cpp):      *)
(* InitGraph, Predict, Measure and the estimation loop of                  *)
(* CreateGraphAndSolve.  Timestamps are whole seconds; the factor 1.1 of   *)
(* the solve schedule is kept exact by comparing 10*(T mod 60) with 11*dt. *)
(* A second state machine, SpecResampling, models SampleMeasurementsDown    *)
(* and AverageMeasurement (Resampling.cpp) with exact fractions.            *)
(***************************************************************************)
EXTENDS Integers, Sequences, FiniteSets, TLC

VARIABLES pc, Config, Measurements, Graph, LocalFrame, Result, calls,
          TimeFirst, TimeOld, TimeNow, TimeLast, ret, ResultBeforeConvert

\* state of the resampling utilities (Resampling.cpp)
VARIABLES rpc, Input, SampleTime, idx, TimeNext, TimeMax, AveragingWindow,
          Output, Windows, Averaged

appVars == <<pc, Config, Measurements, Graph, LocalFrame, Result, calls,
             TimeFirst, TimeOld, TimeNow, TimeLast, ret, ResultBeforeConvert>>

rsVars == <<rpc, Input, SampleTime, idx, TimeNext, TimeMax, AveragingWindow,
            Output, Windows, Averaged>>

vars == <<appVars, rsVars>>

\* ------------------------------------------------------------------ bounds
\* largest number of timestamps on the measurement timeline
MaxSteps == 3
\* largest gap (seconds) between two consecutive timestamps
MaxGap == 2

\* ------------------------------------------------------- program constants
\* period of the forced solve, seconds
ForcePeriod == 60
\* margin of the forced solve, in tenths (1.1)
ForceMargin10 == 11
\* window handed to setAllConstantOutsideWindow by InitGraph (1.0)
InitWindow == 1
\* shared standard deviation of the fallback prior (1.0)
InitStdDev == 1

POSITION_STATE == "Position"
ORIENTATION_STATE == "Orientation"
IMU_STATE == "IMU"

Zero3 == <<0, 0, 0>>
\* origin of the tangent plane in the global frame (the first fix)
FixGlobal == <<100, 200, 300>>

\* first timestamps tried: around the start and the end of a 60 s period
FirstTimes == {0, 1, 2, 58, 59}
\* prior parameter vectors [x, y, z, sx, sy, sz] tried
PriorParameters == {<<0, 0, 3, 2, 2, 2>>, <<1, 1, 5, 1, 2, 3>>}
PriorTypes == {"Prior3", "Prior1"}
\* window lengths (seconds) of the configuration tried
WindowLengths == {0, 1}

\* ------------------------------------------------------------- timelines
RECURSIVE Timelines(_)
Timelines(n) ==
  IF n = 1 THEN {<<t>> : t \in FirstTimes}
  ELSE LET Shorter == Timelines(n - 1)
       IN  Shorter \cup
           {Append(s, s[Len(s)] + g) : s \in {x \in Shorter : Len(x) = n - 1},
                                       g \in 1..MaxGap}

\* ------------------------------------------------------------ noise models
\* a noise model is its square-root information diagonal, each component a
\* fraction <<numerator, denominator>>
setStdDevSharedDiagonal(s) == [i \in 1..3 |-> <<1, s>>]
setSqrtInformationDiagonal(v) == [i \in 1..3 |-> <<v[i], 1>>]
tail3(p) == <<p[4], p[5], p[6]>>

\* ------------------------------------------------------------ environment
\* the objects the drivers mutate: the graph, the frame converter, the log of
\* calls made, and whether a contract violation was signalled
Env(states, factors, frame, log, ok) ==
  [states |-> states, factors |-> factors, frame |-> frame, log |-> log, ok |-> ok]

Call(op, site, t, told, flag) ==
  [op |-> op, site |-> site, t |-> t, told |-> told, flag |-> flag]

Log(e, op, site, t, told, flag) ==
  [e EXCEPT !.log = Append(@, Call(op, site, t, told, flag))]

HasState(e, name, t) == \E s \in e.states : s.name = name /\ s.t = t

getElement(e, name, t) == CHOOSE s \in e.states : s.name = name /\ s.t = t

\* FactorGraph::addState: a new free variable; a duplicate key is a violation
addState(e, name, t, mean) ==
  IF HasState(e, name, t)
  THEN [e EXCEPT !.ok = FALSE]
  ELSE [e EXCEPT !.states = @ \cup {[name |-> name, t |-> t, mean |-> mean,
                                     frozen |-> FALSE]}]

\* FactorGraph::addFactor: appends one factor; an unknown key is a violation
\* and adds nothing
addFactor(e, kind, name, t, mean, noise) ==
  IF ~HasState(e, name, t)
  THEN [e EXCEPT !.ok = FALSE]
  ELSE [e EXCEPT !.factors = Append(@, [kind |-> kind, name |-> name, t |-> t,
                                        mean |-> mean, noise |-> noise])]

\* FactorGraph::setAllConstantOutsideWindow: free -> frozen for every variable
\* with timestamp < currentTime - windowLength
setAllConstantOutsideWindow(e, windowLength, currentTime) ==
  [e EXCEPT !.states =
     {[s EXCEPT !.frozen = (s.frozen \/ s.t < currentTime - windowLength)] : s \in @}]

ensureState(e, name, t) ==
  IF HasState(e, name, t) THEN e ELSE addState(e, name, t, Zero3)

\* TangentPlaneConverter
toLocal(p, origin) == [i \in 1..3 |-> p[i] - origin[i]]
toGlobal(p, origin) == [i \in 1..3 |-> p[i] + origin[i]]

\* InitWithGNSS: seeds the converter and the first position from the first fix
InitWithGNSS(e, M, TimeInitial) ==
  IF ~M.fix THEN e
  ELSE LET f == IF e.frame.initialized THEN e.frame
                ELSE [initialized |-> TRUE, origin |-> FixGlobal]
           e1 == [e EXCEPT !.frame = f]
       IN  addState(e1, POSITION_STATE, TimeInitial, toLocal(FixGlobal, f.origin))

\* InitIMU: bias estimation over the first inertial measurements
InitIMU(e, TimeInitial) == ensureState(e, IMU_STATE, TimeInitial)

\* InitOdom: generic orientation-only prior
InitOdom(e, TimeInitial) ==
  addFactor(ensureState(e, ORIENTATION_STATE, TimeInitial),
            "PriorOrientation", ORIENTATION_STATE, TimeInitial, Zero3,
            setStdDevSharedDiagonal(1))

\* AddIMU / AddOdometry: new variable at TimeNow joined to the one at TimeOld
AddIMU(e, TimeOld_, TimeNow_) ==
  addFactor(ensureState(e, POSITION_STATE, TimeNow_),
            "IMU", POSITION_STATE, TimeNow_, Zero3, setStdDevSharedDiagonal(1))

AddOdometry(e, TimeOld_, TimeNow_) ==
  addFactor(ensureState(e, POSITION_STATE, TimeNow_),
            "Odom", POSITION_STATE, TimeNow_, Zero3, setStdDevSharedDiagonal(1))

\* AddGNSS: observation factor tied to the variable at TimeNow
AddGNSS(e, TimeOld_, TimeNow_) ==
  addFactor(ensureState(e, POSITION_STATE, TimeNow_),
            "Pseudorange", POSITION_STATE, TimeNow_, Zero3, setStdDevSharedDiagonal(1))

\* Solve (scheduled) and Graph.solve run the external minimiser; the calls are
\* recorded, the numerical update of the free means is outside the model.  The
\* scheduled Solve then applies the sliding window of the configuration.
Solve(e, cfg, site, TimeOld_, TimeNow_, ForceSolve) ==
  setAllConstantOutsideWindow(Log(e, "Solve", site, TimeNow_, TimeOld_, ForceSolve),
                              cfg.WindowLength, TimeNow_)

\* Save: appends the position estimate of TimeNow to the result
Save(R, e, TimeNow_, final) ==
  IF HasState(e, POSITION_STATE, TimeNow_)
  THEN Append(R, [name |-> POSITION_STATE, t |-> TimeNow_,
                  mean |-> getElement(e, POSITION_STATE, TimeNow_).mean,
                  final |-> final])
  ELSE R

\* TangentPlaneConverter::convertAllStatesToGlobal
convertAllStatesToGlobal(R, frame) ==
  [i \in 1..Len(R) |-> [R[i] EXCEPT !.mean = toGlobal(@, frame.origin)]]

\* GetFirstTimestamp / GetLastTimestamp: whether the timestamp was found
GetFirstTimestamp(M) == M.first
GetLastTimestamp(M) == M.last

\* IncrementTime: the next timestamp of the timeline, if there is one
HasNextTime(M, t) == \E i \in 1..Len(M.times) : M.times[i] > t
NextTime(M, t) ==
  M.times[CHOOSE i \in 1..Len(M.times) :
            /\ M.times[i] > t
            /\ \A j \in 1..Len(M.times) : M.times[j] > t => i <= j]

\* ---------------------------------------------------------------- drivers
\* Predict adding odometry whatever the configuration says
Predict_OdomAlways(e, cfg, TimeOld_, TimeNow_) ==
  LET e1 == IF cfg.IMU
            THEN AddIMU(Log(e, "AddIMU", 43, TimeNow_, TimeOld_, FALSE), TimeOld_, TimeNow_)
            ELSE e
  IN  AddOdometry(Log(e1, "AddOdometry", 49, TimeNow_, TimeOld_, FALSE), TimeOld_, TimeNow_)

Predict(e, cfg, TimeOld_, TimeNow_) ==
  LET e1 == IF cfg.IMU
            THEN AddIMU(Log(e, "AddIMU", 43, TimeNow_, TimeOld_, FALSE), TimeOld_, TimeNow_)
            ELSE e
      e2 == IF cfg.Odom
            THEN AddOdometry(Log(e1, "AddOdometry", 49, TimeNow_, TimeOld_, FALSE),
                             TimeOld_, TimeNow_)
            ELSE e1
  IN  e2

Measure(e, cfg, TimeOld_, TimeNow_) ==
  LET e1 == IF cfg.GNSS
            THEN AddGNSS(Log(e, "AddGNSS", 62, TimeNow_, TimeOld_, FALSE), TimeOld_, TimeNow_)
            ELSE e
      e2 == IF cfg.Prior /\ cfg.PriorType = "Prior3"
            THEN IF ~HasState(e1, POSITION_STATE, TimeNow_)
                 THEN [e1 EXCEPT !.ok = FALSE]
                 ELSE LET Mean == getElement(e1, POSITION_STATE, TimeNow_).mean
                          Point == <<Mean[1], Mean[2], cfg.Parameter[3]>>
                          PriorNoise == setSqrtInformationDiagonal(tail3(cfg.Parameter))
                      IN  addFactor(Log(e1, "addFactor", 81, TimeNow_, TimeOld_, FALSE),
                                    "Prior3", POSITION_STATE, TimeNow_, Point, PriorNoise)
            ELSE e1
  IN  e2

\* the fallback seeding without its prior factor
InitGraphFallback_NoPrior(e, TimeInitial) ==
  LET a == addState(Log(e, "addState", 115, TimeInitial, TimeInitial, FALSE),
                    POSITION_STATE, TimeInitial, Zero3)
  IN  setAllConstantOutsideWindow(
        Log(a, "setAllConstantOutsideWindow", 125, TimeInitial, TimeInitial, FALSE),
        InitWindow, TimeInitial)

\* lines 114-125: the fallback seeding of InitGraph
InitGraphFallback(e, TimeInitial) ==
  LET a == addState(Log(e, "addState", 115, TimeInitial, TimeInitial, FALSE),
                    POSITION_STATE, TimeInitial, Zero3)
      b == addFactor(Log(a, "addFactor", 122, TimeInitial, TimeInitial, FALSE),
                     "Prior3", POSITION_STATE, TimeInitial, Zero3,
                     setStdDevSharedDiagonal(InitStdDev))
  IN  setAllConstantOutsideWindow(
        Log(b, "setAllConstantOutsideWindow", 125, TimeInitial, TimeInitial, FALSE),
        InitWindow, TimeInitial)

\* InitGraph with the inertial pass counting as an initialization
InitGraph_AnyInit(e, M, cfg, TimeInitial) ==
  LET e1 == IF cfg.GNSS
            THEN InitWithGNSS(Log(e, "InitWithGNSS", 96, TimeInitial, TimeInitial, FALSE),
                              M, TimeInitial)
            ELSE e
      IsInitialized == cfg.GNSS \/ cfg.IMU
      e2 == IF cfg.IMU
            THEN InitIMU(Log(e1, "InitIMU", 103, TimeInitial, TimeInitial, FALSE), TimeInitial)
            ELSE IF cfg.Odom
                 THEN InitOdom(Log(e1, "InitOdom", 108, TimeInitial, TimeInitial, FALSE),
                               TimeInitial)
                 ELSE e1
  IN  IF ~IsInitialized THEN InitGraphFallback(e2, TimeInitial) ELSE e2

\* InitGraph with the orientation prior not depending on the inertial flag
InitGraph_OdomAlways(e, M, cfg, TimeInitial) ==
  LET e1 == IF cfg.GNSS
            THEN InitWithGNSS(Log(e, "InitWithGNSS", 96, TimeInitial, TimeInitial, FALSE),
                              M, TimeInitial)
            ELSE e
      IsInitialized == cfg.GNSS
      e2 == IF cfg.IMU
            THEN InitIMU(Log(e1, "InitIMU", 103, TimeInitial, TimeInitial, FALSE), TimeInitial)
            ELSE e1
      e3 == IF cfg.Odom
            THEN InitOdom(Log(e2, "InitOdom", 108, TimeInitial, TimeInitial, FALSE),
                          TimeInitial)
            ELSE e2
  IN  IF ~IsInitialized THEN InitGraphFallback(e3, TimeInitial) ELSE e3

InitGraph(e, M, cfg, TimeInitial) ==
  LET e1 == IF cfg.GNSS
            THEN InitWithGNSS(Log(e, "InitWithGNSS", 96, TimeInitial, TimeInitial, FALSE),
                              M, TimeInitial)
            ELSE e
      IsInitialized == cfg.GNSS
      e2 == IF cfg.IMU
            THEN InitIMU(Log(e1, "InitIMU", 103, TimeInitial, TimeInitial, FALSE), TimeInitial)
            ELSE IF cfg.Odom
                 THEN InitOdom(Log(e1, "InitOdom", 108, TimeInitial, TimeInitial, FALSE),
                               TimeInitial)
                 ELSE e1
  IN  IF ~IsInitialized THEN InitGraphFallback(e2, TimeInitial) ELSE e2

\* the force flag without the 1.1 margin
ForceSolve_NoMargin(TimeOld_, TimeNow_) ==
  (TimeNow_ % ForcePeriod) < (TimeNow_ - TimeOld_)

\* force flag of the scheduled solve: fmod(TimeNow, 60.0) < (TimeNow - TimeOld) * 1.1
ForceSolve(TimeOld_, TimeNow_) ==
  10 * (TimeNow_ % ForcePeriod) < ForceMargin10 * (TimeNow_ - TimeOld_)

\* the loop's solve without the initial refinement
LoopSolve_NoRefine(e, cfg, TimeFirst_, TimeOld_, TimeNow_) ==
  Solve(e, cfg, 191, TimeOld_, TimeNow_, ForceSolve(TimeOld_, TimeNow_))

\* the scheduled solve called only when it is forced
LoopSolve_OnlyForced(e, cfg, TimeFirst_, TimeOld_, TimeNow_) ==
  LET e1 == IF TimeNow_ = TimeFirst_
            THEN Log(e, "Graph.solve", 188, TimeNow_, TimeOld_, FALSE)
            ELSE e
  IN  IF ForceSolve(TimeOld_, TimeNow_)
      THEN Solve(e1, cfg, 191, TimeOld_, TimeNow_, TRUE)
      ELSE e1

\* the initial refinement repeated at every step
LoopSolve_RefineAlways(e, cfg, TimeFirst_, TimeOld_, TimeNow_) ==
  Solve(Log(e, "Graph.solve", 188, TimeNow_, TimeOld_, FALSE),
        cfg, 191, TimeOld_, TimeNow_, ForceSolve(TimeOld_, TimeNow_))

\* body of the loop after Measure: the initial refinement and the scheduled solve
LoopSolve(e, cfg, TimeFirst_, TimeOld_, TimeNow_) ==
  LET e1 == IF TimeNow_ = TimeFirst_
            THEN Log(e, "Graph.solve", 188, TimeNow_, TimeOld_, FALSE)
            ELSE e
  IN  Solve(e1, cfg, 191, TimeOld_, TimeNow_, ForceSolve(TimeOld_, TimeNow_))

\* the solve after the loop
FinalSolve(e, cfg, TimeOld_, TimeNow_) == Solve(e, cfg, 205, TimeOld_, TimeNow_, TRUE)

\* conversion decided by the configuration alone
ConvertBack_GNSSOnly(cfg, frame) == cfg.GNSS

\* whether the result is converted back to the global frame
ConvertBack(cfg, frame) == cfg.GNSS /\ frame.initialized

\* -------------------------------------------------------------- resampling
\* largest number of measurements handed to the resampling utilities
MaxInput == 3
\* largest timestamp of such a measurement
MaxInputTime == 3

\* sample times tried (SampleTime > 0)
SampleTimes == {1, 2}
\* mean and covariance of the measurements tried
MeasValues == {<<0, 1>>, <<2, 2>>}

\* exact fractions <<numerator, denominator>> in lowest terms stand for doubles
RECURSIVE GCD(_, _)
GCD(a, b) == IF b = 0 THEN a ELSE GCD(b, a % b)
Rat(n, d) == LET g == GCD(n, d) IN <<n \div g, d \div g>>
RatAdd(a, b) == Rat(a[1] * b[2] + b[1] * a[2], a[2] * b[2])
RatDiv(a, k) == Rat(a[1], a[2] * k)
RatInverse(a) == <<a[2], a[1]>>
RatLess(a, b) == a[1] * b[2] < b[1] * a[2]
RatGeq(a, b) == ~RatLess(a, b)

RECURSIVE SumOf(_)
\* sum of a sequence of fractions
SumOf(Q) ==
  IF Q = <<>> THEN Rat(0, 1) ELSE RatAdd(Q[1], SumOf(Tail(Q)))

\* a default-constructed SensorData
DefaultSensorData ==
  [valid |-> FALSE, t |-> Rat(0, 1), mean |-> Rat(0, 1), cov |-> Rat(0, 1)]

SensorDatas ==
  {[valid |-> TRUE, t |-> Rat(t, 1), mean |-> Rat(v[1], 1), cov |-> Rat(v[2], 1)] :
     t \in 0..MaxInputTime, v \in MeasValues}

RECURSIVE SensorInputs(_)
SensorInputs(n) ==
  IF n = 0 THEN {<<>>}
  ELSE LET Shorter == SensorInputs(n - 1)
       IN  Shorter \cup
           {Append(s, d) : s \in {x \in Shorter : Len(x) = n - 1}, d \in SensorDatas}

GetT(d) == d.t
GetMean(d) == d.mean
GetInfo(d) == RatInverse(d.cov)

\* AverageMeasurement returning a zero measurement for an empty vector
AverageMeasurement_ZeroForEmpty(In) ==
  IF Len(In) = 1 THEN In[1]
  ELSE LET n == IF In = <<>> THEN 1 ELSE Len(In)
       IN  [valid |-> TRUE,
            t |-> RatDiv(SumOf([i \in 1..Len(In) |-> GetT(In[i])]), n),
            mean |-> RatDiv(SumOf([i \in 1..Len(In) |-> GetMean(In[i])]), n),
            cov |-> IF In = <<>> THEN Rat(0, 1) ELSE RatInverse(SumOf([i \in 1..Len(In) |-> GetInfo(In[i])]))]

\* lines 65-103
AverageMeasurement(In) ==
  IF In = <<>> THEN DefaultSensorData
  ELSE IF Len(In) = 1 THEN In[1]
  ELSE [In[Len(In)] EXCEPT
          !.t = RatDiv(SumOf([i \in 1..Len(In) |-> GetT(In[i])]), Len(In)),
          !.mean = RatDiv(SumOf([i \in 1..Len(In) |-> GetMean(In[i])]), Len(In)),
          !.cov = RatInverse(SumOf([i \in 1..Len(In) |-> GetInfo(In[i])]))]

\* the period test without the clause for the last measurement
PeriodOver_NoLast(Sensor, TimeNext_, TimeMax_) == RatGeq(Sensor.t, TimeNext_)

\* line 48: the period is over
PeriodOver(Sensor, TimeNext_, TimeMax_) ==
  RatGeq(Sensor.t, TimeNext_) \/ Sensor.t = TimeMax_

\* the window's average keeping the averaged timestamp
AverageWindow_MeanTime(W) == AverageMeasurement(W)

\* lines 51-54: the window's average, stamped with its last measurement
AverageWindow(W) == [AverageMeasurement(W) EXCEPT !.t = W[Len(W)].t]

RsIdle ==
  /\ rpc = "idle"
  /\ Input = <<>>
  /\ SampleTime = Rat(1, 1)
  /\ idx = 0
  /\ TimeNext = Rat(0, 1)
  /\ TimeMax = Rat(0, 1)
  /\ AveragingWindow = <<>>
  /\ Output = <<>>
  /\ Windows = <<>>
  /\ Averaged = <<>>

\* ------------------------------------------------------------------ state
CurrentEnv == Env(Graph.states, Graph.factors, LocalFrame, calls, TRUE)

Configs ==
  [GNSS : BOOLEAN, IMU : BOOLEAN, Odom : BOOLEAN, Prior : BOOLEAN,
   PriorType : PriorTypes, Parameter : PriorParameters,
   WindowLength : WindowLengths]

Inputs ==
  [times : Timelines(MaxSteps), fix : BOOLEAN, first : BOOLEAN, last : BOOLEAN]

Init ==
  /\ pc = "start"
  /\ RsIdle
  /\ Config \in Configs
  /\ Measurements \in Inputs
  /\ Graph = [states |-> {}, factors |-> <<>>]
  /\ LocalFrame = [initialized |-> FALSE, origin |-> Zero3]
  /\ Result = <<>>
  /\ ResultBeforeConvert = <<>>
  /\ calls = <<>>
  \* -1: not yet assigned (line 147), not yet returned
  /\ TimeFirst = -1 /\ TimeOld = -1 /\ TimeNow = -1 /\ TimeLast = -1
  /\ ret = -1

\* writes an environment back and moves on, or stops on a contract violation
Commit(e, next) ==
  /\ Graph' = [states |-> e.states, factors |-> e.factors]
  /\ LocalFrame' = e.frame
  /\ calls' = e.log
  /\ pc' = IF e.ok THEN next ELSE "violation"

\* the early return taken only when the first timestamp is missing
GetTimestamps_IgnoreLast ==
  /\ pc = "start"
  /\ UNCHANGED rsVars
  /\ IF ~GetFirstTimestamp(Measurements)
     THEN /\ ret' = 1
          /\ pc' = "done"
          /\ UNCHANGED <<TimeFirst, TimeLast>>
     ELSE /\ TimeFirst' = Measurements.times[1]
          /\ TimeLast' = Measurements.times[Len(Measurements.times)]
          /\ pc' = "init"
          /\ UNCHANGED ret
  /\ UNCHANGED <<Config, Measurements, Graph, LocalFrame, Result, calls,
                 TimeOld, TimeNow, ResultBeforeConvert>>

\* lines 146-159: the relevant timestamps, or the early return
GetTimestamps ==
  /\ pc = "start"
  /\ UNCHANGED rsVars
  /\ IF ~GetFirstTimestamp(Measurements) \/ ~GetLastTimestamp(Measurements)
     THEN /\ ret' = 1
          /\ pc' = "done"
          /\ TimeFirst' = IF GetFirstTimestamp(Measurements)
                          THEN Measurements.times[1] ELSE TimeFirst
          /\ UNCHANGED TimeLast
     ELSE /\ TimeFirst' = Measurements.times[1]
          /\ TimeLast' = Measurements.times[Len(Measurements.times)]
          /\ pc' = "init"
          /\ UNCHANGED ret
  /\ UNCHANGED <<Config, Measurements, Graph, LocalFrame, Result, calls,
                 TimeOld, TimeNow, ResultBeforeConvert>>

\* lines 161-166
DoInitGraph ==
  /\ pc = "init"
  /\ UNCHANGED rsVars
  /\ Commit(InitGraph(Log(CurrentEnv, "InitGraph", 162, TimeFirst, TimeFirst, FALSE),
                      Measurements, Config, TimeFirst), "predict")
  /\ TimeOld' = TimeFirst - 1
  /\ TimeNow' = TimeFirst
  /\ UNCHANGED <<Config, Measurements, Result, TimeFirst, TimeLast, ret,
                 ResultBeforeConvert>>

\* Predict run at the first timestep too
DoPredict_Always ==
  /\ pc = "predict"
  /\ UNCHANGED rsVars
  /\ Commit(Predict(Log(CurrentEnv, "Predict", 179, TimeNow, TimeOld, FALSE),
                    Config, TimeOld, TimeNow), "measure")
  /\ UNCHANGED <<Config, Measurements, Result, TimeFirst, TimeOld, TimeNow,
                 TimeLast, ret, ResultBeforeConvert>>

\* lines 176-180
DoPredict ==
  /\ pc = "predict"
  /\ UNCHANGED rsVars
  /\ IF TimeNow > TimeFirst
     THEN Commit(Predict(Log(CurrentEnv, "Predict", 179, TimeNow, TimeOld, FALSE),
                         Config, TimeOld, TimeNow), "measure")
     ELSE Commit(CurrentEnv, "measure")
  /\ UNCHANGED <<Config, Measurements, Result, TimeFirst, TimeOld, TimeNow,
                 TimeLast, ret, ResultBeforeConvert>>

\* line 183
DoMeasure ==
  /\ pc = "measure"
  /\ UNCHANGED rsVars
  /\ Commit(Measure(Log(CurrentEnv, "Measure", 183, TimeNow, TimeOld, FALSE),
                    Config, TimeOld, TimeNow), "solve")
  /\ UNCHANGED <<Config, Measurements, Result, TimeFirst, TimeOld, TimeNow,
                 TimeLast, ret, ResultBeforeConvert>>

\* lines 185-191
DoSolve ==
  /\ pc = "solve"
  /\ UNCHANGED rsVars
  /\ Commit(LoopSolve(CurrentEnv, Config, TimeFirst, TimeOld, TimeNow), "save")
  /\ UNCHANGED <<Config, Measurements, Result, TimeFirst, TimeOld, TimeNow,
                 TimeLast, ret, ResultBeforeConvert>>

\* lines 193-200
DoSave ==
  /\ pc = "save"
  /\ UNCHANGED rsVars
  /\ Result' = Save(Result, CurrentEnv, TimeNow, FALSE)
  /\ Commit(Log(CurrentEnv, "Save", 197, TimeNow, TimeOld, FALSE), "increment")
  /\ UNCHANGED <<Config, Measurements, TimeFirst, TimeOld, TimeNow,
                 TimeLast, ret, ResultBeforeConvert>>

\* line 201: the loop condition
DoIncrementTime ==
  /\ pc = "increment"
  /\ UNCHANGED rsVars
  /\ IF HasNextTime(Measurements, TimeNow)
     THEN /\ TimeOld' = TimeNow
          /\ TimeNow' = NextTime(Measurements, TimeNow)
          /\ Commit(Log(CurrentEnv, "IncrementTime", 201, TimeNow, TimeOld, TRUE), "predict")
     ELSE /\ UNCHANGED <<TimeOld, TimeNow>>
          /\ Commit(Log(CurrentEnv, "IncrementTime", 201, TimeNow, TimeOld, FALSE), "final")
  /\ UNCHANGED <<Config, Measurements, Result, TimeFirst, TimeLast, ret,
                 ResultBeforeConvert>>

\* lines 203-207
DoFinalSolve ==
  /\ pc = "final"
  /\ UNCHANGED rsVars
  /\ Result' = Save(Result, CurrentEnv, TimeNow, TRUE)
  /\ ResultBeforeConvert' = Result'
  /\ Commit(Log(FinalSolve(CurrentEnv, Config, TimeOld, TimeNow),
                "Save", 207, TimeNow, TimeOld, TRUE), "convert")
  /\ UNCHANGED <<Config, Measurements, TimeFirst, TimeOld, TimeNow, TimeLast, ret>>

\* lines 209-225
DoConvert ==
  /\ pc = "convert"
  /\ UNCHANGED rsVars
  /\ IF ConvertBack(Config, LocalFrame)
     THEN /\ Result' = convertAllStatesToGlobal(Result, LocalFrame)
          /\ Commit(Log(Log(Log(CurrentEnv,
                                "WriteDataToFile", 214, TimeNow, TimeOld, FALSE),
                            "convertAllStatesToGlobal", 218, TimeNow, TimeOld, FALSE),
                        "printReport", 222, TimeNow, TimeOld, FALSE), "done")
     ELSE /\ UNCHANGED Result
          /\ Commit(Log(CurrentEnv, "printReport", 222, TimeNow, TimeOld, FALSE), "done")
  /\ ret' = 0
  /\ UNCHANGED <<Config, Measurements, TimeFirst, TimeOld, TimeNow, TimeLast,
                 ResultBeforeConvert>>

Next ==
  \/ GetTimestamps
  \/ DoInitGraph
  \/ DoPredict
  \/ DoMeasure
  \/ DoSolve
  \/ DoSave
  \/ DoIncrementTime
  \/ DoFinalSolve
  \/ DoConvert

Spec == Init /\ [][Next]_vars

\* ----------------------------------------------- resampling: state machine
\* a call of SampleMeasurementsDown(Input, SampleTime) followed by a call of
\* AverageMeasurement(Input); idx is the position of the range-for loop,
\* Windows the arguments handed to AverageMeasurement by the loop
InitResampling ==
  /\ pc = "idle"
  /\ Config = [GNSS |-> FALSE, IMU |-> FALSE, Odom |-> FALSE, Prior |-> FALSE,
               PriorType |-> "Prior3", Parameter |-> <<0, 0, 3, 2, 2, 2>>,
               WindowLength |-> 0]
  /\ Measurements = [times |-> <<0>>, fix |-> FALSE, first |-> FALSE, last |-> FALSE]
  /\ Graph = [states |-> {}, factors |-> <<>>]
  /\ LocalFrame = [initialized |-> FALSE, origin |-> Zero3]
  /\ Result = <<>>
  /\ ResultBeforeConvert = <<>>
  /\ calls = <<>>
  /\ TimeFirst = -1 /\ TimeOld = -1 /\ TimeNow = -1 /\ TimeLast = -1
  /\ ret = -1
  /\ rpc = "start"
  /\ Input \in SensorInputs(MaxInput)
  /\ SampleTime \in {Rat(s, 1) : s \in SampleTimes}
  /\ idx = 0
  /\ TimeNext = Rat(0, 1)
  /\ TimeMax = Rat(0, 1)
  /\ AveragingWindow = <<>>
  /\ Output = <<>>
  /\ Windows = <<>>
  /\ Averaged = <<>>

\* lines 29-41: the empty check and the set-up of the loop
SampleStart ==
  /\ rpc = "start"
  /\ IF Input = <<>>
     THEN /\ rpc' = "returned"
          /\ UNCHANGED <<TimeNext, TimeMax, idx>>
     ELSE /\ TimeNext' = RatAdd(Input[1].t, SampleTime)
          /\ TimeMax' = Input[Len(Input)].t
          /\ idx' = 1
          /\ rpc' = "loop"
  /\ Output' = <<>>
  /\ AveragingWindow' = <<>>
  /\ UNCHANGED <<Input, SampleTime, Windows, Averaged>>
  /\ UNCHANGED appVars

\* lines 42-60: one iteration of the loop
SampleStep ==
  /\ rpc = "loop"
  /\ idx <= Len(Input)
  /\ LET Sensor == Input[idx]
         W == Append(AveragingWindow, Sensor)
     IN  IF PeriodOver(Sensor, TimeNext, TimeMax)
         THEN /\ Output' = Append(Output, AverageWindow(W))
              /\ Windows' = Append(Windows, W)
              /\ AveragingWindow' = <<>>
              /\ TimeNext' = RatAdd(TimeNext, SampleTime)
         ELSE /\ AveragingWindow' = W
              /\ UNCHANGED <<Output, Windows, TimeNext>>
  /\ idx' = idx + 1
  /\ UNCHANGED <<rpc, Input, SampleTime, TimeMax, Averaged>>
  /\ UNCHANGED appVars

\* line 62: the loop is over
SampleReturn ==
  /\ rpc = "loop"
  /\ idx > Len(Input)
  /\ rpc' = "returned"
  /\ UNCHANGED <<Input, SampleTime, idx, TimeNext, TimeMax, AveragingWindow,
                 Output, Windows, Averaged>>
  /\ UNCHANGED appVars

\* lines 65-103: AverageMeasurement called on the whole input
Average ==
  /\ rpc = "returned"
  /\ Averaged' = <<AverageMeasurement(Input)>>
  /\ rpc' = "averaged"
  /\ UNCHANGED <<Input, SampleTime, idx, TimeNext, TimeMax, AveragingWindow,
                 Output, Windows>>
  /\ UNCHANGED appVars

NextResampling ==
  \/ SampleStart
  \/ SampleStep
  \/ SampleReturn
  \/ Average

SpecResampling == InitResampling /\ [][NextResampling]_vars

\* ================================================================ claims
Sites(op, site) == {i \in 1..Len(calls) : calls[i].op = op /\ calls[i].site = site}
NumCalls(op, site) == Cardinality(Sites(op, site))
InitGraphReturned == pc = "predict" /\ TimeNow = TimeFirst /\ TimeOld = TimeFirst - 1
Succeeded == pc = "done" /\ ret = 0
PriorFactors == {i \in 1..Len(Graph.factors) : Graph.factors[i].kind = "Prior3"}
PositionStates == {s \in Graph.states : s.name = POSITION_STATE}

\* C1 (as stated): in every successful run a scheduled Solve with force = true
\* is invoked at TimeFirst and one at the final timestep.
C1_ForcedAtFirstAndLast ==
  Succeeded =>
    /\ \E i \in 1..Len(calls) :
         calls[i].op = "Solve" /\ calls[i].t = TimeFirst /\ calls[i].flag
    /\ \E i \in 1..Len(calls) :
         calls[i].op = "Solve" /\ calls[i].t = TimeLast /\ calls[i].flag

\* C1 (amended): the scheduled Solve of the first loop step is always directly
\* preceded by the unscheduled Graph.solve and its force flag is
\* (TimeFirst mod 60) < 1.1 (dt = 1); after the loop the last Solve of the run is
\* invoked with force = true at the final timestamp.
C1_FirstRefinedLastForced ==
  /\ \A i \in Sites("Solve", 191) :
       calls[i].t = TimeFirst =>
         /\ calls[i].flag = (10 * (TimeFirst % 60) < 11)
         /\ i > 1
         /\ calls[i - 1].op = "Graph.solve"
         /\ calls[i - 1].t = TimeFirst
  /\ (pc \in {"convert", "done"} /\ ret # 1) =>
       \E i \in Sites("Solve", 205) :
         /\ calls[i].flag
         /\ calls[i].t = TimeNow
         /\ \A j \in Sites("Solve", 191) : j < i /\ calls[j].t <= calls[i].t
         /\ \E j \in Sites("Solve", 191) : calls[j].t = calls[i].t
         /\ \A j \in 1..Len(calls) : calls[j].op = "Solve" => j <= i

C1_Witness ==
  /\ Succeeded
  /\ Len(Measurements.times) >= 2
  /\ TimeFirst % 60 >= 2
  /\ \E i \in Sites("Solve", 191) : calls[i].t = TimeFirst /\ ~calls[i].flag

\* C2: the force flag of every scheduled Solve of the loop is true iff
\* (TimeNow mod 60) < 1.1 * (TimeNow - TimeOld), TimeOld being the timestamp of
\* the previous loop step (TimeFirst - 1 at the first step).
C2_ForceFlagFormula ==
  \A i \in Sites("Solve", 191) :
    /\ calls[i].flag <=> (10 * (calls[i].t % 60) < 11 * (calls[i].t - calls[i].told))
    /\ LET Earlier == {j \in Sites("Solve", 191) : j < i}
       IN  IF Earlier = {}
           THEN calls[i].t = TimeFirst /\ calls[i].told = TimeFirst - 1
           ELSE calls[i].told = calls[CHOOSE j \in Earlier : \A k \in Earlier : k <= j].t

C2_Witness ==
  /\ Succeeded
  /\ \E i, j \in Sites("Solve", 191) :
       /\ calls[i].t > TimeFirst /\ calls[i].flag /\ calls[i].t - calls[i].told = 2
       /\ calls[i].t % 60 = 2
       /\ ~calls[j].flag

\* C3 (as stated): with GNSS, IMU and Odom inactive the position variable that
\* the fallback of InitGraph created at TimeInitial is frozen when InitGraph
\* returns.
C3_AnchorFrozen ==
  (InitGraphReturned /\ ~Config.GNSS /\ ~Config.IMU /\ ~Config.Odom) =>
    /\ NumCalls("setAllConstantOutsideWindow", 125) = 1
    /\ \A s \in PositionStates : s.t = TimeFirst => s.frozen

\* C4: InitGraph takes exactly one seeding branch: InitWithGNSS and no fallback
\* when GNSS is active, the fallback exactly once when GNSS is inactive.
C4_OneSeedingBranch ==
  pc \notin {"start", "init"} /\ ret # 1 =>
    IF Config.GNSS
    THEN /\ NumCalls("InitWithGNSS", 96) = 1
         /\ NumCalls("addState", 115) = 0
         /\ NumCalls("addFactor", 122) = 0
         /\ NumCalls("setAllConstantOutsideWindow", 125) = 0
         /\ InitGraphReturned => PriorFactors = {}
    ELSE /\ NumCalls("InitWithGNSS", 96) = 0
         /\ NumCalls("addState", 115) = 1
         /\ NumCalls("addFactor", 122) = 1
         /\ NumCalls("setAllConstantOutsideWindow", 125) = 1
         /\ InitGraphReturned =>
              Cardinality(PriorFactors) = 1 /\ Cardinality(PositionStates) = 1

C4_Witness ==
  InitGraphReturned /\ ~Config.GNSS /\ Config.IMU /\ Config.Odom
    /\ NumCalls("setAllConstantOutsideWindow", 125) = 1

OnlyPrior == Config.Prior /\ ~Config.GNSS /\ ~Config.IMU /\ ~Config.Odom

\* C5 (as stated): with only Prior active, after InitGraph there is one position
\* variable at the initial timestamp with mean [0,0,0] and one prior factor,
\* whose standard deviation is the configured (sx, sy, sz).
C5_ConfiguredStdDev ==
  (InitGraphReturned /\ OnlyPrior) =>
    /\ Graph.states = {[name |-> POSITION_STATE, t |-> TimeFirst, mean |-> Zero3,
                        frozen |-> s.frozen] : s \in Graph.states}
    /\ Cardinality(Graph.states) = 1
    /\ Cardinality(PriorFactors) = 1
    /\ \A i \in PriorFactors : \A k \in 1..3 :
         Graph.factors[i].noise[k][2] =
           Graph.factors[i].noise[k][1] * Config.Parameter[3 + k]

\* C5 (amended): with only Prior active, after InitGraph there is one position
\* variable at the initial timestamp with mean [0,0,0] and one prior factor on
\* it, centred at [0,0,0], whose standard deviation is 1.0 on every axis
\* whatever the configured (sx, sy, sz).
C5_FixedStdDev ==
  (InitGraphReturned /\ OnlyPrior) =>
    /\ Graph.states = {[name |-> POSITION_STATE, t |-> TimeFirst, mean |-> Zero3,
                        frozen |-> s.frozen] : s \in Graph.states}
    /\ Cardinality(Graph.states) = 1
    /\ Cardinality(PriorFactors) = 1
    /\ Len(Graph.factors) = 1
    /\ \A i \in PriorFactors :
         /\ Graph.factors[i].name = POSITION_STATE
         /\ Graph.factors[i].t = TimeFirst
         /\ Graph.factors[i].mean = Zero3
         /\ \A k \in 1..3 :
              Graph.factors[i].noise[k][2] = Graph.factors[i].noise[k][1] * 1

C5_Witness ==
  InitGraphReturned /\ OnlyPrior /\ Config.Parameter[4] = 2
    /\ Cardinality(PriorFactors) = 1

\* C6 (as stated): over a whole run Measure attaches the supplementary prior
\* factor at most once.
C6_PriorAttachedOnce ==
  (Config.Prior /\ Config.PriorType = "Prior3") => NumCalls("addFactor", 81) <= 1

\* C7: when the first or the last timestamp is not found the run returns a
\* nonzero status and no graph work is ever done.
C7_EarlyReturn ==
  /\ (pc # "start" /\ (~Measurements.first \/ ~Measurements.last)) =>
       /\ pc = "done"
       /\ ret = 1
       /\ calls = <<>>
       /\ Graph = [states |-> {}, factors |-> <<>>]
       /\ Result = <<>>
       /\ ~LocalFrame.initialized
  /\ ret = 1 => (~Measurements.first \/ ~Measurements.last)

C7_Witness ==
  pc = "done" /\ ret = 1 /\ Measurements.first /\ ~Measurements.last

IsLoopCall(c) == c.site \in {179, 183, 188, 191, 197, 201}
LoopCalls == SelectSeq(calls, IsLoopCall)

\* C8: every loop step runs Predict, Measure, solve, save and the time advance
\* in this order, Predict being skipped exactly at the first timestep; no solve
\* is invoked from inside Predict or Measure.
C8_LoopOrder ==
  LET L == LoopCalls
  IN  /\ Len(L) > 0 => (L[1].site = 183 /\ L[1].t = TimeFirst)
      /\ \A i \in 1..Len(L) :
           /\ L[i].site = 179 => L[i].t > TimeFirst
           /\ i < Len(L) =>
                CASE L[i].site = 179 -> L[i + 1].site = 183 /\ L[i + 1].t = L[i].t
                  [] L[i].site = 183 ->
                       /\ L[i + 1].site = (IF L[i].t = TimeFirst THEN 188 ELSE 191)
                       /\ L[i + 1].t = L[i].t
                  [] L[i].site = 188 -> L[i + 1].site = 191 /\ L[i + 1].t = L[i].t
                  [] L[i].site = 191 -> L[i + 1].site = 197 /\ L[i + 1].t = L[i].t
                  [] L[i].site = 197 -> L[i + 1].site = 201 /\ L[i + 1].t = L[i].t
                  [] L[i].site = 201 ->
                       /\ L[i].flag
                       /\ L[i + 1].site = 179
                       /\ L[i + 1].t > L[i].t
                       /\ L[i + 1].told = L[i].t
      /\ \A i \in 1..Len(calls) :
           calls[i].op \in {"Solve", "Graph.solve"} => calls[i].site \in {188, 191, 205}
      /\ \A i \in 1..Len(calls) :
           calls[i].site \in {43, 49, 62, 81} =>
             \E j \in 1..(i - 1) :
               /\ calls[j].site \in {179, 183}
               /\ \A k \in j..i : calls[k].site \in {179, 183, 43, 49, 62, 81}
               /\ \A k \in j..i : calls[k].t = calls[i].t

C8_Witness ==
  /\ Succeeded
  /\ NumCalls("Predict", 179) >= 2
  /\ NumCalls("AddIMU", 43) >= 2
  /\ NumCalls("AddGNSS", 62) >= 3

\* C9: InitIMU runs iff IMU is active, InitOdom iff Odom is active and IMU is
\* not, and the seeding branch is the one GNSS selects whatever these flags are.
C9_OrthogonalAddOns ==
  pc \notin {"start", "init"} /\ ret # 1 =>
    /\ NumCalls("InitIMU", 103) = (IF Config.IMU THEN 1 ELSE 0)
    /\ NumCalls("InitOdom", 108) = (IF Config.Odom /\ ~Config.IMU THEN 1 ELSE 0)
    /\ NumCalls("InitWithGNSS", 96) + NumCalls("addState", 115) = 1
    /\ NumCalls("InitWithGNSS", 96) = 1 <=> Config.GNSS

C9_Witness ==
  InitGraphReturned /\ Config.IMU /\ Config.Odom /\ Config.GNSS
    /\ NumCalls("InitIMU", 103) = 1

\* C10: when the converter was never initialized the final conversion is not
\* invoked and the Result is left as the final Save produced it; this is the
\* case in every run with GNSS inactive.
C10_NoConversionUninitialized ==
  /\ ~Config.GNSS => ~LocalFrame.initialized
  /\ (Succeeded /\ ~LocalFrame.initialized) =>
       /\ NumCalls("convertAllStatesToGlobal", 218) = 0
       /\ NumCalls("WriteDataToFile", 214) = 0
       /\ Result = ResultBeforeConvert

C10_Witness ==
  Succeeded /\ Config.GNSS /\ ~LocalFrame.initialized /\ Len(Result) >= 2

NewCallSites == {calls'[i].site : i \in (Len(calls) + 1)..Len(calls')}

\* C11: Predict with IMU and Odom inactive and Measure with GNSS and Prior
\* inactive leave the graph unchanged, and a modality handler runs in a step
\* exactly when its configuration flag is set, whatever the measurements are.
C11_InactiveContributesNothing ==
  [][/\ (pc = "predict" /\ ~Config.IMU /\ ~Config.Odom) => Graph' = Graph
     /\ (pc = "measure" /\ ~Config.GNSS /\ ~Config.Prior) => Graph' = Graph
     /\ (pc = "predict" /\ TimeNow > TimeFirst) =>
          /\ 43 \in NewCallSites <=> Config.IMU
          /\ 49 \in NewCallSites <=> Config.Odom
     /\ pc = "measure" => (62 \in NewCallSites <=> Config.GNSS)]_vars

C11_Witness ==
  /\ pc = "solve"
  /\ TimeNow > TimeFirst
  /\ ~Config.IMU /\ ~Config.Odom /\ ~Config.GNSS /\ ~Config.Prior
  /\ NumCalls("Predict", 179) = 1
  /\ NumCalls("Measure", 183) = 2
  /\ Graph.states = {[name |-> POSITION_STATE, t |-> TimeFirst, mean |-> Zero3,
                      frozen |-> s.frozen] : s \in Graph.states}
  /\ Cardinality(Graph.states) = 1

FreeStates == {s \in Graph.states : ~s.frozen}

OpCalls(op) == {i \in 1..Len(calls) : calls[i].op = op}
LastOf(S) == CHOOSE i \in S : \A j \in S : j <= i

\* C17: a successful run over N >= 1 timesteps invokes the scheduled Solve and
\* Save N + 1 times each, the last of each after the loop at the timestamp of
\* the last loop step, that Solve with force = true and that Save marked final;
\* Graph.solve is invoked once, at the first timestep, right before the
\* scheduled Solve.
C17_SolveSaveCounts ==
  Succeeded =>
    LET N == NumCalls("Measure", 183)
    IN  /\ N >= 1
        /\ N = Len(Measurements.times)
        /\ Cardinality(OpCalls("Solve")) = N + 1
        /\ Cardinality(OpCalls("Save")) = N + 1
        /\ NumCalls("Solve", 191) = N /\ NumCalls("Save", 197) = N
        /\ LET s == LastOf(OpCalls("Solve"))
               v == LastOf(OpCalls("Save"))
               l == LastOf(Sites("Solve", 191))
           IN  /\ calls[s].site = 205 /\ calls[s].flag
               /\ calls[v].site = 207 /\ calls[v].flag
               /\ v = s + 1
               /\ calls[s].t = calls[l].t /\ calls[v].t = calls[l].t
               /\ calls[l].t = Measurements.times[N]
        /\ \A i \in Sites("Save", 197) : ~calls[i].flag
        /\ Cardinality(OpCalls("Graph.solve")) = 1
        /\ \A i \in OpCalls("Graph.solve") :
             /\ calls[i].t = TimeFirst
             /\ calls[i + 1].op = "Solve" /\ calls[i + 1].site = 191
             /\ \A j \in OpCalls("Solve") : j > i

C17_Witness ==
  /\ Succeeded
  /\ Len(Measurements.times) = 3
  /\ Cardinality(OpCalls("Solve")) = 4
  /\ Len(Result) = 4

\* --------------------------------------------------- claims on resampling
RECURSIVE Flatten(_)
Flatten(Ws) == IF Ws = <<>> THEN <<>> ELSE Ws[1] \o Flatten(Tail(Ws))

Sorted(In) == \A i, j \in 1..Len(In) : i < j => ~RatLess(In[j].t, In[i].t)
SampleReturned == rpc \in {"returned", "averaged"}

\* C13: on an empty input SampleMeasurementsDown returns an empty vector without
\* entering its loop or averaging anything, and AverageMeasurement returns a
\* default-constructed measurement.
C13_EmptyInput ==
  Input = <<>> =>
    /\ rpc # "loop"
    /\ SampleReturned =>
         Output = <<>> /\ Windows = <<>> /\ AveragingWindow = <<>> /\ idx = 0
    /\ rpc = "averaged" => Averaged = <<DefaultSensorData>>

C13_Witness ==
  rpc = "averaged" /\ Input = <<>> /\ Output = <<>> /\ Len(Averaged) = 1

\* C14 (as stated): for a time-sorted input all measurements of one averaging
\* window lie within one period: latest - earliest timestamp < SampleTime.
C14_WindowsWithinPeriod ==
  Sorted(Input) =>
    \A k \in 1..Len(Windows) :
      RatLess(Windows[k][Len(Windows[k])].t, RatAdd(Windows[k][1].t, SampleTime))

\* C15: for every non-empty input the averaging windows are non-empty and,
\* concatenated in order with the pending window, are exactly the measurements
\* read so far; at the return the pending window is empty, the windows cover
\* the whole input and there are between 1 and Len(Input) outputs.
C15_NoLossNoDuplicate ==
  Input # <<>> =>
    /\ \A k \in 1..Len(Windows) : Windows[k] # <<>>
    /\ Len(Output) = Len(Windows)
    /\ rpc = "loop" =>
         Flatten(Windows) \o AveragingWindow = SubSeq(Input, 1, idx - 1)
    /\ SampleReturned =>
         /\ AveragingWindow = <<>>
         /\ Flatten(Windows) = Input
         /\ 1 <= Len(Output) /\ Len(Output) <= Len(Input)

C15_Witness ==
  /\ rpc = "returned"
  /\ Len(Input) = 3
  /\ ~Sorted(Input)
  /\ Len(Windows) = 2
  /\ Len(Windows[1]) = 2

\* C16: every output carries the timestamp of the last measurement of its
\* window; for a time-sorted input the output timestamps are non-decreasing,
\* each is the timestamp of an input measurement, and at the return the last
\* output has the timestamp of the last input.
C16_OutputTimestamps ==
  /\ \A k \in 1..Len(Output) :
       k <= Len(Windows) => Output[k].t = Windows[k][Len(Windows[k])].t
  /\ Sorted(Input) =>
       /\ \A k \in 1..Len(Output) : \E i \in 1..Len(Input) : Output[k].t = Input[i].t
       /\ \A k \in 1..(Len(Output) - 1) : ~RatLess(Output[k + 1].t, Output[k].t)
       /\ (SampleReturned /\ Input # <<>>) =>
            Output # <<>> /\ Output[Len(Output)].t = Input[Len(Input)].t

C16_Witness ==
  /\ rpc = "returned"
  /\ Sorted(Input)
  /\ Len(Output) = 2
  /\ \E k \in 1..Len(Windows) :
       /\ Len(Windows[k]) = 2
       /\ AverageMeasurement(Windows[k]).t # Output[k].t

====
